---- MODULE Spec2Model ----
(***************************************************************************)
(* The rpc connection pool of cluster/connpool.go: connArray (a fixed      *)
(* array of grpc client connections served round-robin) and rpcClient (an  *)
(* address-keyed registry of connArrays behind a sync.RWMutex, with an     *)
(* irreversible isClosed flag).                                            *)
(*                                                                         *)
(* Every goroutine is a thread with a program counter; every step between  *)
(* two synchronisation points of the code is one action.                   *)
(***************************************************************************)
EXTENDS Integers, Sequences, FiniteSets, TLC

(* ------------------------------ bounds -------------------------------- *)
\* goroutines calling into the pool
NumThreads == 2
\* distinct addresses
NumAddrs == 2
\* getConnArray calls issued in one run
MaxCalls == 2
\* closeConns calls issued in one run
MaxCloses == 2
\* Get calls issued in one run of the round-robin specification
MaxGets == 10
\* array lengths 1..MaxLen are tried next to the pool's own length
MaxLen == 3
\* start cursors 0..WrapWindow and 2^32-1-WrapWindow..2^32-1 are tried
WrapWindow == 2

(* ------------------------- program constants -------------------------- *)
\* newConnArray(10, addr)
PoolSize == 10
\* index is a uint32: it is kept as two 16-bit limbs <<hi, lo>>, value hi*2^16+lo
Limb == 65536

Threads == 1 .. NumThreads
Addrs == 1 .. NumAddrs

\* a nil *connArray, a nil *grpc.ClientConn, a nil error
NoArray == 0
NilConn == <<0, 0>>
NoErr == "nil"
ErrClosed == "rpc client is closed"
ErrDial == "dial error"
ErrClose == "close error"
\* no goroutine holds the write lock
NoThread == 0

VARIABLES
  isClosed,   \* rpcClient.isClosed
  conns,      \* rpcClient.conns: address -> array id, NoArray when absent
  rw,         \* rpcClient.RWMutex: [writer, readers]
  arrays,     \* the heap of reachable connArrays: id -> [index, v]
  net,        \* the transport's side: id -> [addr, st], st[slot] the connection
              \* dialed for that slot: "undialed", "failed", "open", "closed"
  orphans,    \* per address, the connections still open in arrays that became
              \* unreachable (a failed newConnArray's array is garbage)
  pc,         \* each goroutine's position
  addr,       \* getConnArray / createConnArray argument
  array,      \* local `array` of getConnArray / createConnArray
  err,        \* local `err` of getConnArray, createConnArray and Close
  a,          \* receiver `a` of newConnArray / init / Close
  i,          \* loop index of init / Close
  todo,       \* closeConns: arrays the range over c.conns has yet to visit
  ret,        \* the goroutine's last completed getConnArray: [addr, array, err]
  next,       \* local `next` of Get
  got,        \* what the goroutine's last Get returned
  hist,       \* calls issued and returned: [gcaCalls, gcaRets, ccCalls, ccRets]
  entry,      \* while the goroutine is in getConnArray: [closeReturned], had a
              \* closeConns call returned when it entered
  racing,     \* every getConnArray call so far was entered before any returned
  shut,       \* the arrays registered when closeConns set isClosed
  dialSeqs,   \* per address, the newConnArray calls (dial sequences) started
  gets,       \* Get calls issued per goroutine
  log         \* Get calls in cursor order: [a, old, slot]

shared == <<isClosed, conns, rw, arrays, net, orphans>>
locals == <<pc, addr, array, err, a, i, todo, ret, next, got>>
ghosts == <<hist, entry, racing, shut, dialSeqs, gets, log>>
vars == <<isClosed, conns, rw, arrays, net, orphans, pc, addr, array, err, a, i,
          todo, ret, next, got, hist, entry, racing, shut, dialSeqs, gets, log>>

(* ----------------------------- connArray ------------------------------ *)
Slots(id) == DOMAIN arrays[id].v
Size(id) == Cardinality(Slots(id))

\* make([]*grpc.ClientConn, maxSize) with index 0
NewArray(maxSize) ==
  [index |-> <<0, 0>>, v |-> [s \in 0 .. maxSize - 1 |-> NilConn]]

\* a plain load and store in place of the atomic add: the update is lost
AddUint32_lost(x, delta) == x

\* atomic.AddUint32 on the two limbs, wrapping at 2^32
AddUint32(x, delta) ==
  LET lo == x[2] + delta
  IN  <<(x[1] + (lo \div Limb)) % Limb, lo % Limb>>

\* x % n for a uint32 x
ModUint32(x, n) == (((x[1] % n) * (Limb % n)) + (x[2] % n)) % n

\* a Close that clears the slot without closing the connection
CloseConn_skipped(st) == st

\* grpc's ClientConn.Close on a connection of the transport: an open connection
\* is closed, a connection closed before has now been closed twice
CloseConn(st) == IF st = "open" THEN "closed" ELSE "closed twice"

\* a Close that closes the connection and leaves it in the slot
CloseSlot_kept(h, id, s) ==
  LET c == h[1][id].v[s]
  IN  IF c # NilConn
        THEN <<h[1], [h[2] EXCEPT ![c[1]].st[c[2]] = CloseConn(@)]>>
        ELSE h

\* one iteration of Close's loop on slot s of array id, as the pair <<arrays, net>>
\* it leaves: if c != nil { c.Close(); a.v[i] = nil }
CloseSlot(h, id, s) ==
  LET c == h[1][id].v[s]
  IN  IF c # NilConn
        THEN <<[h[1] EXCEPT ![id].v[s] = NilConn],
               [h[2] EXCEPT ![c[1]].st[c[2]] = CloseConn(@)]>>
        ELSE h

\* what c.Close() can return for the connection of a slot; a nil slot is skipped
CloseResults(c) == IF c = NilConn THEN {NoErr} ELSE {NoErr, ErrClose}

\* a Close that returns at the first close error
CloseNext_abort(e, s, n) == IF e = NoErr THEN s + 1 ELSE n

\* the slot Close's loop visits after slot s of n, c.Close() having returned e:
\* the error is dropped and the range goes on
CloseNext(e, s, n) == s + 1

\* Close's loop over slots s .. len-1: the iterations touch disjoint slots and
\* connections (slot x holds nil or the connection dialed for slot x), so each
\* slot and its connection end as their own iteration leaves them
CloseFrom(h, id, s) ==
  <<[h[1] EXCEPT ![id].v =
       [x \in DOMAIN @ |-> IF x >= s THEN CloseSlot(h, id, x)[1][id].v[x] ELSE @[x]]],
    [h[2] EXCEPT ![id].st =
       [x \in DOMAIN @ |-> IF x >= s THEN CloseSlot(h, id, x)[2][id].st[x] ELSE @[x]]]>>

(* ------------------------------ rpcClient ----------------------------- *)
\* a fast path without the closed check
gca_closed_unchecked == FALSE

\* the fast path's closed check
gca_closed == isClosed

\* a createConnArray without the re-check
cca_ok_unchecked(ad) == FALSE

\* createConnArray's re-check under the exclusive lock
cca_ok(ad) == conns[ad] # NoArray

\* a createConnArray that returns the new array without registering it
RegistryOnSuccess_dropped(m, ad, id) == m

\* c.conns[addr] = array after a successful construction
RegistryOnSuccess(m, ad, id) == [m EXCEPT ![ad] = id]

\* a createConnArray that registers the array before it checks err
RegistryOnFailure_registered(m, ad, id) == [m EXCEPT ![ad] = id]

\* return nil, err after a failed construction: nothing is registered
RegistryOnFailure(m, ad, id) == m

\* a range that stops after the first address
RangeConns_first(m) == {m[ad] : ad \in {x \in Addrs : m[x] # NoArray /\ x = 1}}

\* the values `for _, array := range c.conns` visits
RangeConns(m) == {m[ad] : ad \in {x \in Addrs : m[x] # NoArray}}

\* a Lock that does not wait for the lock's holders
LockFree_ignored == TRUE

\* c.Lock() can be taken: no goroutine holds the lock, shared or exclusive
LockFree == rw.writer = NoThread /\ rw.readers = {}

\* c.RLock() can be taken: no goroutine holds the exclusive lock
CanRLock == rw.writer = NoThread

\* a fast path that keeps the shared lock when it returns
RUnlock_kept(m, t) == m

\* c.RUnlock()
RUnlock(m, t) == [m EXCEPT !.readers = @ \ {t}]

\* a closeConns that closes the pool's connArrays on every call
cc_open_unchecked == TRUE

\* closeConns' guard: if !c.isClosed
cc_open == ~isClosed

\* an init that drops the connection it dialed
StoreConn_dropped(v, s, c) == v

\* a.v[i] = conn
StoreConn(v, s, c) == [v EXCEPT ![s] = c]

Init ==
  /\ isClosed = FALSE
  /\ conns = [ad \in Addrs |-> NoArray]
  /\ rw = [writer |-> NoThread, readers |-> {}]
  /\ arrays = <<>>
  /\ net = <<>>
  /\ orphans = [ad \in Addrs |-> 0]
  /\ pc = [t \in Threads |-> "idle"]
  /\ addr = [t \in Threads |-> 1]
  /\ array = [t \in Threads |-> NoArray]
  /\ err = [t \in Threads |-> NoErr]
  /\ a = [t \in Threads |-> NoArray]
  /\ i = [t \in Threads |-> 0]
  /\ todo = [t \in Threads |-> {}]
  /\ ret = [t \in Threads |-> [addr |-> 1, array |-> NoArray, err |-> NoErr]]
  /\ next = [t \in Threads |-> 0]
  /\ got = [t \in Threads |-> NilConn]
  /\ hist = [gcaCalls |-> 0, gcaRets |-> 0, ccCalls |-> 0, ccRets |-> 0]
  /\ entry = [t \in Threads |-> [closeReturned |-> FALSE]]
  /\ racing = TRUE
  /\ shut = {}
  /\ dialSeqs = [ad \in Addrs |-> 0]
  /\ gets = [t \in Threads |-> 0]
  /\ log = <<>>

\* a goroutine enters getConnArray(ad) and takes the shared lock: c.RLock()
getConnArray_RLock(t, ad) ==
  /\ pc[t] = "idle"
  /\ hist.gcaCalls < MaxCalls
  /\ CanRLock
  /\ rw' = [rw EXCEPT !.readers = @ \cup {t}]
  /\ pc' = [pc EXCEPT ![t] = "gca_check"]
  /\ addr' = [addr EXCEPT ![t] = ad]
  /\ hist' = [hist EXCEPT !.gcaCalls = @ + 1]
  /\ entry' = [entry EXCEPT ![t] = [closeReturned |-> hist.ccRets > 0]]
  /\ racing' = (racing /\ hist.gcaRets = 0)
  /\ UNCHANGED <<isClosed, conns, arrays, net, orphans, array, err, a, i, todo,
                 ret, next, got, shut, dialSeqs, gets, log>>

\* the reads under the shared lock, then c.RUnlock()
getConnArray_check(t) ==
  /\ pc[t] = "gca_check"
  /\ rw' = RUnlock(rw, t)
  /\ IF gca_closed
       THEN /\ array' = [array EXCEPT ![t] = NoArray]
            /\ err' = [err EXCEPT ![t] = ErrClosed]
            /\ pc' = [pc EXCEPT ![t] = "gca_return"]
       ELSE /\ array' = [array EXCEPT ![t] = conns[addr[t]]]
            /\ err' = err
            /\ pc' = [pc EXCEPT ![t] =
                        IF conns[addr[t]] = NoArray THEN "cca_Lock" ELSE "gca_return"]
  /\ UNCHANGED <<isClosed, conns, arrays, net, orphans, addr, a, i, todo, ret,
                 next, got, ghosts>>

\* createConnArray: c.Lock(), the re-check, and either the return of the
\* registered entry (with the deferred Unlock) or the allocation of newConnArray
createConnArray_Lock(t) ==
  /\ pc[t] = "cca_Lock"
  /\ LockFree
  /\ IF cca_ok(addr[t])
       THEN /\ array' = [array EXCEPT ![t] = conns[addr[t]]]
            /\ pc' = [pc EXCEPT ![t] = "gca_return"]
            /\ UNCHANGED <<rw, arrays, net, a, i, dialSeqs>>
       ELSE /\ rw' = [rw EXCEPT !.writer = t]
            /\ arrays' = Append(arrays, NewArray(PoolSize))
            /\ net' = Append(net, [addr |-> addr[t],
                                   st |-> [s \in 0 .. PoolSize - 1 |-> "undialed"]])
            /\ a' = [a EXCEPT ![t] = Len(arrays) + 1]
            /\ i' = [i EXCEPT ![t] = 0]
            /\ dialSeqs' = [dialSeqs EXCEPT ![addr[t]] = @ + 1]
            /\ pc' = [pc EXCEPT ![t] = "init"]
            /\ array' = array
  /\ UNCHANGED <<isClosed, conns, orphans, addr, err, todo, ret, next, got, hist,
                 entry, racing, shut, gets, log>>

\* one iteration of init's loop: grpc.DialContext succeeds, or it fails and
\* a.Close() cleans up the array, which no other goroutine can reach
init_dial(t) ==
  /\ pc[t] = "init"
  /\ i[t] < Size(a[t])
  /\ \E ok \in BOOLEAN :
       IF ok
         THEN /\ arrays' = [arrays EXCEPT ![a[t]].v =
                                StoreConn(@, i[t], <<a[t], i[t]>>)]
              /\ net' = [net EXCEPT ![a[t]].st[i[t]] = "open"]
              /\ i' = [i EXCEPT ![t] = @ + 1]
              /\ UNCHANGED <<pc, err>>
         ELSE LET h == CloseFrom(<<arrays,
                                   [net EXCEPT ![a[t]].st[i[t]] = "failed"]>>,
                                 a[t], 0)
              IN  /\ arrays' = h[1]
                  /\ net' = h[2]
                  /\ err' = [err EXCEPT ![t] = ErrDial]
                  /\ pc' = [pc EXCEPT ![t] = "init_err"]
                  /\ i' = i
  /\ UNCHANGED <<isClosed, conns, rw, orphans, addr, array, a, todo, ret, next,
                 got, ghosts>>

\* one iteration of Close's loop, run by closeConns on a registered array; err is
\* the iteration's local `err := c.Close()`
Close_slot(t) ==
  /\ pc[t] = "cc_Close"
  /\ i[t] < Size(a[t])
  /\ LET h == CloseSlot(<<arrays, net>>, a[t], i[t])
     IN  /\ arrays' = h[1]
         /\ net' = h[2]
  /\ \E e \in CloseResults(arrays[a[t]].v[i[t]]) :
       /\ err' = [err EXCEPT ![t] = e]
       /\ i' = [i EXCEPT ![t] = CloseNext(e, @, Size(a[t]))]
  /\ UNCHANGED <<isClosed, conns, rw, orphans, pc, addr, array, a, todo, ret,
                 next, got, ghosts>>

\* init returns err, newConnArray returns nil, err, createConnArray returns
\* nil, err and its deferred Unlock runs; the array, referenced by nobody, is
\* garbage
createConnArray_fail(t) ==
  /\ pc[t] = "init_err"
  /\ conns' = RegistryOnFailure(conns, addr[t], a[t])
  /\ IF a[t] \in {conns'[ad] : ad \in Addrs}
       THEN UNCHANGED <<arrays, net, orphans>>
       ELSE /\ arrays' = SubSeq(arrays, 1, a[t] - 1)
            /\ net' = SubSeq(net, 1, a[t] - 1)
            /\ orphans' = [orphans EXCEPT ![addr[t]] =
                             @ + Cardinality({s \in Slots(a[t]) :
                                                net[a[t]].st[s] = "open"})]
  /\ array' = [array EXCEPT ![t] = NoArray]
  /\ a' = [a EXCEPT ![t] = NoArray]
  /\ i' = [i EXCEPT ![t] = 0]
  /\ rw' = [rw EXCEPT !.writer = NoThread]
  /\ pc' = [pc EXCEPT ![t] = "gca_return"]
  /\ UNCHANGED <<isClosed, addr, err, todo, ret, next, got, ghosts>>

\* init returns nil, newConnArray returns a, c.conns[addr] = array, createConnArray
\* returns array, nil and its deferred Unlock runs
createConnArray_register(t) ==
  /\ pc[t] = "init"
  /\ i[t] = Size(a[t])
  /\ conns' = RegistryOnSuccess(conns, addr[t], a[t])
  /\ array' = [array EXCEPT ![t] = a[t]]
  /\ a' = [a EXCEPT ![t] = NoArray]
  /\ i' = [i EXCEPT ![t] = 0]
  /\ rw' = [rw EXCEPT !.writer = NoThread]
  /\ pc' = [pc EXCEPT ![t] = "gca_return"]
  /\ UNCHANGED <<isClosed, arrays, net, orphans, addr, err, todo, ret, next, got,
                 ghosts>>

\* getConnArray returns (array, err) to its caller
getConnArray_return(t) ==
  /\ pc[t] = "gca_return"
  /\ ret' = [ret EXCEPT ![t] = [addr |-> addr[t], array |-> array[t],
                                err |-> err[t]]]
  /\ array' = [array EXCEPT ![t] = NoArray]
  /\ err' = [err EXCEPT ![t] = NoErr]
  /\ pc' = [pc EXCEPT ![t] = "idle"]
  /\ hist' = [hist EXCEPT !.gcaRets = @ + 1]
  /\ entry' = [entry EXCEPT ![t] = [closeReturned |-> FALSE]]
  /\ UNCHANGED <<shared, addr, a, i, todo, next, got, racing, shut, dialSeqs,
                 gets, log>>

\* a goroutine enters closeConns: c.Lock(); if !c.isClosed { c.isClosed = true;
\* <start of the range> }
closeConns_Lock(t) ==
  /\ pc[t] = "idle"
  /\ hist.ccCalls < MaxCloses
  /\ LockFree
  /\ rw' = [rw EXCEPT !.writer = t]
  /\ IF cc_open
       THEN /\ isClosed' = TRUE
            /\ todo' = [todo EXCEPT ![t] = RangeConns(conns)]
            /\ shut' = IF isClosed THEN shut
                                   ELSE {conns[ad] : ad \in Addrs} \ {NoArray}
       ELSE /\ todo' = [todo EXCEPT ![t] = {}]
            /\ UNCHANGED <<isClosed, shut>>
  /\ pc' = [pc EXCEPT ![t] = "cc_range"]
  /\ hist' = [hist EXCEPT !.ccCalls = @ + 1]
  /\ UNCHANGED <<conns, arrays, net, orphans, addr, array, err, a, i, ret, next,
                 got, entry, racing, dialSeqs, gets, log>>

\* the range picks the next array (in no particular order) and calls Close
closeConns_range(t) ==
  /\ pc[t] = "cc_range"
  /\ \E id \in todo[t] :
       /\ a' = [a EXCEPT ![t] = id]
       /\ todo' = [todo EXCEPT ![t] = @ \ {id}]
  /\ i' = [i EXCEPT ![t] = 0]
  /\ pc' = [pc EXCEPT ![t] = "cc_Close"]
  /\ UNCHANGED <<shared, addr, array, err, ret, next, got, ghosts>>

\* array.Close() returns into the range
Close_return(t) ==
  /\ pc[t] = "cc_Close"
  /\ i[t] = Size(a[t])
  /\ a' = [a EXCEPT ![t] = NoArray]
  /\ i' = [i EXCEPT ![t] = 0]
  /\ err' = [err EXCEPT ![t] = NoErr]
  /\ pc' = [pc EXCEPT ![t] = "cc_range"]
  /\ UNCHANGED <<shared, addr, array, todo, ret, next, got, ghosts>>

\* c.Unlock() and closeConns returns
closeConns_Unlock(t) ==
  /\ pc[t] = "cc_range"
  /\ todo[t] = {}
  /\ rw' = [rw EXCEPT !.writer = NoThread]
  /\ pc' = [pc EXCEPT ![t] = "idle"]
  /\ hist' = [hist EXCEPT !.ccRets = @ + 1]
  /\ UNCHANGED <<isClosed, conns, arrays, net, orphans, addr, array, err, a, i,
                 todo, ret, next, got, entry, racing, shut, dialSeqs, gets, log>>

Next ==
  \E t \in Threads :
    \/ \E ad \in Addrs : getConnArray_RLock(t, ad)
    \/ getConnArray_check(t)
    \/ createConnArray_Lock(t)
    \/ init_dial(t)
    \/ Close_slot(t)
    \/ createConnArray_fail(t)
    \/ createConnArray_register(t)
    \/ getConnArray_return(t)
    \/ closeConns_Lock(t)
    \/ closeConns_range(t)
    \/ Close_return(t)
    \/ closeConns_Unlock(t)

Spec == Init /\ [][Next]_vars

\* the steps of a goroutine that is inside a call: everything but the entry into
\* a new call
Proceed(t) ==
  \/ getConnArray_check(t)
  \/ createConnArray_Lock(t)
  \/ init_dial(t)
  \/ Close_slot(t)
  \/ createConnArray_fail(t)
  \/ createConnArray_register(t)
  \/ getConnArray_return(t)
  \/ closeConns_range(t)
  \/ Close_return(t)
  \/ closeConns_Unlock(t)

\* a goroutine inside a call keeps running: every dial and every close returns,
\* and a Lock that stays possible is granted
Fairness == \A t \in Threads : WF_vars(Proceed(t))

\* the addresses the callers of the fair specification ask for: two distinct
\* ones, the first and the last
FairAddrs == {1, NumAddrs}

NextFair ==
  \E t \in Threads :
    \/ \E ad \in FairAddrs : getConnArray_RLock(t, ad)
    \/ closeConns_Lock(t)
    \/ Proceed(t)

SpecFair == Init /\ [][NextFair]_vars /\ Fairness

(* ------------------------- round-robin selection ---------------------- *)
\* Get: next := atomic.AddUint32(&a.index, 1) % uint32(len(a.v))
Get_add(t) ==
  /\ pc[t] = "idle"
  /\ ret[t].array # NoArray
  /\ Len(log) < MaxGets
  /\ LET id == ret[t].array
         new == AddUint32(arrays[id].index, 1)
         slot == ModUint32(new, Size(id))
     IN  /\ arrays' = [arrays EXCEPT ![id].index = new]
         /\ next' = [next EXCEPT ![t] = slot]
         /\ log' = Append(log, [a |-> id, old |-> arrays[id].index, slot |-> slot])
  /\ gets' = [gets EXCEPT ![t] = @ + 1]
  /\ pc' = [pc EXCEPT ![t] = "Get_return"]
  /\ UNCHANGED <<isClosed, conns, rw, net, orphans, addr, array, err, a, i, todo,
                 ret, got, hist, entry, racing, shut, dialSeqs>>

\* Get: return a.v[next]
Get_return(t) ==
  /\ pc[t] = "Get_return"
  /\ got' = [got EXCEPT ![t] = arrays[ret[t].array].v[next[t]]]
  /\ next' = [next EXCEPT ![t] = 0]
  /\ pc' = [pc EXCEPT ![t] = "idle"]
  /\ UNCHANGED <<shared, addr, array, err, a, i, todo, ret, ghosts>>

\* the lengths newConnArray is tried with, and the cursors Get starts from: any
\* uint32 is the cursor of an array after that many Get calls
Lens == (1 .. MaxLen) \cup {PoolSize}
StartCursors ==
  {<<0, d>> : d \in 0 .. WrapWindow}
    \cup {<<Limb - 1, Limb - 1 - d>> : d \in 0 .. WrapWindow}

\* an open pool in which every goroutine holds the connArray getConnArray
\* returned for address 1: all its slots dialed, its cursor at c
InitGet ==
  \E k \in Lens, c \in StartCursors :
    /\ isClosed = FALSE
    /\ conns = [ad \in Addrs |-> IF ad = 1 THEN 1 ELSE NoArray]
    /\ rw = [writer |-> NoThread, readers |-> {}]
    /\ arrays = <<[index |-> c, v |-> [s \in 0 .. k - 1 |-> <<1, s>>]]>>
    /\ net = <<[addr |-> 1, st |-> [s \in 0 .. k - 1 |-> "open"]]>>
    /\ orphans = [ad \in Addrs |-> 0]
    /\ pc = [t \in Threads |-> "idle"]
    /\ addr = [t \in Threads |-> 1]
    /\ array = [t \in Threads |-> NoArray]
    /\ err = [t \in Threads |-> NoErr]
    /\ a = [t \in Threads |-> NoArray]
    /\ i = [t \in Threads |-> 0]
    /\ todo = [t \in Threads |-> {}]
    /\ ret = [t \in Threads |-> [addr |-> 1, array |-> 1, err |-> NoErr]]
    /\ next = [t \in Threads |-> 0]
    /\ got = [t \in Threads |-> NilConn]
    /\ hist = [gcaCalls |-> NumThreads, gcaRets |-> NumThreads,
               ccCalls |-> 0, ccRets |-> 0]
    /\ entry = [t \in Threads |-> [closeReturned |-> FALSE]]
    /\ racing = FALSE
    /\ shut = {}
    /\ dialSeqs = [ad \in Addrs |-> IF ad = 1 THEN 1 ELSE 0]
    /\ gets = [t \in Threads |-> 0]
    /\ log = <<>>

NextGet == \E t \in Threads : Get_add(t) \/ Get_return(t)

SpecGet == InitGet /\ [][NextGet]_vars

(* -------------------------- repeated Close calls ---------------------- *)
\* a goroutine calls Close on the connArray it holds, under the exclusive lock as
\* both callers of Close (createConnArray's init, closeConns) are; the call is
\* counted with the closeConns calls
Close_call(t) ==
  /\ pc[t] = "idle"
  /\ ret[t].array # NoArray
  /\ hist.ccCalls < MaxCloses
  /\ LockFree
  /\ rw' = [rw EXCEPT !.writer = t]
  /\ a' = [a EXCEPT ![t] = ret[t].array]
  /\ i' = [i EXCEPT ![t] = 0]
  /\ todo' = [todo EXCEPT ![t] = {}]
  /\ pc' = [pc EXCEPT ![t] = "cc_Close"]
  /\ hist' = [hist EXCEPT !.ccCalls = @ + 1]
  /\ UNCHANGED <<isClosed, conns, arrays, net, orphans, addr, array, err, ret,
                 next, got, entry, racing, shut, dialSeqs, gets, log>>

\* a connArray of length k as init leaves it for Close: the dial of slot j failed
\* after slots 0..j-1 were filled (j < k), or every slot was filled (j = k)
InitClose ==
  \E k \in Lens, j \in (0 .. MaxLen) \cup {PoolSize} :
    /\ j <= k
    /\ isClosed = FALSE
    /\ conns = [ad \in Addrs |-> NoArray]
    /\ rw = [writer |-> NoThread, readers |-> {}]
    /\ arrays = <<[index |-> <<0, 0>>,
                   v |-> [s \in 0 .. k - 1 |-> IF s < j THEN <<1, s>> ELSE NilConn]]>>
    /\ net = <<[addr |-> 1,
                st |-> [s \in 0 .. k - 1 |->
                          IF s < j THEN "open"
                          ELSE IF s = j THEN "failed" ELSE "undialed"]]>>
    /\ orphans = [ad \in Addrs |-> 0]
    /\ pc = [t \in Threads |-> "idle"]
    /\ addr = [t \in Threads |-> 1]
    /\ array = [t \in Threads |-> NoArray]
    /\ err = [t \in Threads |-> NoErr]
    /\ a = [t \in Threads |-> NoArray]
    /\ i = [t \in Threads |-> 0]
    /\ todo = [t \in Threads |-> {}]
    /\ ret = [t \in Threads |-> [addr |-> 1, array |-> 1, err |-> NoErr]]
    /\ next = [t \in Threads |-> 0]
    /\ got = [t \in Threads |-> NilConn]
    /\ hist = [gcaCalls |-> 0, gcaRets |-> 0, ccCalls |-> 0, ccRets |-> 0]
    /\ entry = [t \in Threads |-> [closeReturned |-> FALSE]]
    /\ racing = FALSE
    /\ shut = {}
    /\ dialSeqs = [ad \in Addrs |-> IF ad = 1 THEN 1 ELSE 0]
    /\ gets = [t \in Threads |-> 0]
    /\ log = <<>>

NextClose ==
  \E t \in Threads :
    \/ Close_call(t)
    \/ Close_slot(t)
    \/ Close_return(t)
    \/ closeConns_Unlock(t)

SpecClose == InitClose /\ [][NextClose]_vars

(* ------------------------------ properties ---------------------------- *)
\* the array a failed construction drops is the one allocated last
DropsLast ==
  \A t \in Threads : pc[t] \in {"init", "init_err"} => a[t] = Len(arrays)

\* the goroutine's last getConnArray returned something
HasResult(t) == ret[t].array # NoArray \/ ret[t].err # NoErr

\* every slot of the array was dialed successfully: the construction succeeded
Constructed(id) == \A s \in DOMAIN net[id].st : net[id].st[s] \in {"open", "closed"}

ConstructedFor(ad) == {id \in DOMAIN net : net[id].addr = ad /\ Constructed(id)}

\* every connection of the array is closed and every slot is nil
ClosedAndCleared(id) ==
  \A s \in Slots(id) : arrays[id].v[s] = NilConn /\ net[id].st[s] = "closed"

\* C1: under any interleaving of getConnArray calls, a registered entry is never
\* replaced or removed, at most one connArray per address is ever constructed
\* successfully, and every getConnArray(addr) that returns a connArray returns
\* the one registered for addr.
C1_OneArrayPerAddr ==
  [][/\ \A ad \in Addrs : conns[ad] # NoArray => conns'[ad] = conns[ad]
     /\ \A ad \in Addrs : Cardinality(ConstructedFor(ad)') <= 1
     /\ \A t \in Threads :
          ret'[t].array # NoArray => ret'[t].array = conns'[ret'[t].addr]]_vars

\* a goroutine that missed the fast path waits for the lock while the entry it
\* wants has been registered and returned by another goroutine
C1_Witness ==
  \E t1, t2 \in Threads :
    /\ t1 # t2
    /\ pc[t2] = "cca_Lock"
    /\ conns[addr[t2]] # NoArray
    /\ ret[t1] = [addr |-> addr[t2], array |-> conns[addr[t2]], err |-> NoErr]

\* the calls issued so far are N >= 2 overlapping getConnArray(ad) calls on a
\* pool that started empty and was never closed, and all have returned
RaceDone(ad) ==
  /\ ~isClosed
  /\ hist.ccCalls = 0
  /\ racing
  /\ hist.gcaCalls >= 2
  /\ hist.gcaRets = hist.gcaCalls
  /\ \A t \in Threads : HasResult(t) => ret[t].addr = ad

Results == {ret[t] : t \in {u \in Threads : HasResult(u)}}

\* C2 as stated: for N callers concurrently calling getConnArray(ad) on an empty,
\* open pool where dials may fail, exactly one dial sequence occurs for ad and
\* either all N calls return the same connArray or all N calls fail.
C2_Original ==
  \A ad \in Addrs :
    RaceDone(ad) =>
      /\ dialSeqs[ad] = 1
      /\ \/ \E id \in DOMAIN arrays :
              Results = {[addr |-> ad, array |-> id, err |-> NoErr]}
         \/ \A r \in Results : r.array = NoArray /\ r.err # NoErr

\* C2 as amended: a dial failure is not shared. Every failed call ran a dial
\* sequence of its own, which failed, and the next caller dials again; at most
\* one dial sequence succeeds, and every call that returns a connArray returns
\* that one registered instance. If no dial fails, exactly one dial sequence
\* occurs and all N calls return the same instance.
C2_Amended ==
  \A ad \in Addrs :
    RaceDone(ad) =>
      LET failed == {t \in Threads : HasResult(t) /\ ret[t].err = ErrDial}
          served == {t \in Threads : HasResult(t) /\ ret[t].array # NoArray}
      IN  /\ \A t \in Threads : HasResult(t) => t \in failed \cup served
          /\ \A t \in served : ret[t].array = conns[ad] /\ ret[t].err = NoErr
          /\ Cardinality(ConstructedFor(ad)) <= 1
          /\ dialSeqs[ad] = Cardinality(failed) + Cardinality(ConstructedFor(ad))
          /\ failed = {} => dialSeqs[ad] = 1 /\ Cardinality(served) = hist.gcaCalls

\* two overlapping calls for one address: the first caller's dial sequence
\* failed, the second caller dialed again and got a connArray
C2_Witness ==
  \E ad \in Addrs, t1, t2 \in Threads :
    /\ RaceDone(ad)
    /\ ret[t1] = [addr |-> ad, array |-> NoArray, err |-> ErrDial]
    /\ ret[t2].array # NoArray
    /\ dialSeqs[ad] = 2

\* C3: a getConnArray call entered after a closeConns call has returned never
\* reaches the creation path and returns (nil, "rpc client is closed"), for a
\* registered address and for one never seen.
C3_ClosedRejects ==
  \A t \in Threads :
    entry[t].closeReturned =>
      /\ pc[t] \in {"gca_check", "gca_return"}
      /\ pc[t] = "gca_return" => array[t] = NoArray /\ err[t] = ErrClosed

\* a call entered after shutdown, for an address registered before shutdown, is
\* about to return
C3_Witness ==
  \E t \in Threads :
    /\ entry[t].closeReturned
    /\ pc[t] = "gca_return"
    /\ conns[addr[t]] \in shut

\* C4 as stated: once isClosed is true no step adds an entry to conns.
C4_Original == [][isClosed => conns' = conns]_vars

\* C5: once the closeConns call that closed the pool has returned, every
\* connection of every connArray that was registered when it set isClosed is
\* closed and its slot is nil.
C5_ShutdownClosesAll ==
  hist.ccRets > 0 => \A id \in shut : ClosedAndCleared(id)

\* closeConns has returned on a pool with a connArray for every address
C5_Witness ==
  /\ hist.ccRets > 0
  /\ Cardinality(shut) = NumAddrs
  /\ NumAddrs >= 2

\* C6: when init has failed at slot j and newConnArray is about to return, the
\* slots after j were never dialed, every connection opened in the slots before
\* j is closed, no slot holds a connection, nobody holds the array, and the
\* caller gets the error with a nil connArray.
C6_PartialDialCleanup ==
  /\ \A t \in Threads :
       pc[t] = "init_err" =>
         /\ err[t] = ErrDial
         /\ \E j \in Slots(a[t]) :
              /\ net[a[t]].st[j] = "failed"
              /\ \A s \in Slots(a[t]) :
                   /\ s < j => net[a[t]].st[s] = "closed"
                   /\ s > j => net[a[t]].st[s] = "undialed"
                   /\ arrays[a[t]].v[s] = NilConn
         /\ \A ad \in Addrs : conns[ad] # a[t]
         /\ \A u \in Threads : ret[u].array # a[t] /\ array[u] # a[t]
  /\ \A t \in Threads :
       /\ pc[t] = "gca_return" /\ err[t] # NoErr => array[t] = NoArray
       /\ ret[t].err # NoErr => ret[t].array = NoArray
  /\ \A ad \in Addrs : orphans[ad] = 0

\* the dial for the 3rd of the 10 slots failed
C6_Witness ==
  \E t \in Threads :
    /\ pc[t] = "init_err"
    /\ net[a[t]].st[2] = "failed"
    /\ net[a[t]].st[1] = "closed"

\* C7: a failed construction returns the error and leaves the registry as it
\* was, with no entry for the address; and a creation path that finds no entry
\* remembers no earlier failure: it starts a new, empty array at slot 0.
C7_FailureRegistersNothing ==
  [][\A t \in Threads :
       /\ (pc[t] = "init_err" /\ pc'[t] # pc[t]) =>
            /\ conns' = conns
            /\ conns[addr[t]] = NoArray
            /\ pc'[t] = "gca_return"
            /\ array'[t] = NoArray
            /\ err'[t] = ErrDial
       /\ (pc[t] = "cca_Lock" /\ pc'[t] # pc[t] /\ conns[addr[t]] = NoArray) =>
            /\ pc'[t] = "init"
            /\ i'[t] = 0
            /\ arrays'[a'[t]] = NewArray(PoolSize)
            /\ \A s \in 0 .. PoolSize - 1 : net'[a'[t]].st[s] = "undialed"]_vars

\* a goroutine whose last call for an address failed to dial has called again
\* for the same address, on the still-open pool, and is about to return a
\* connArray with every slot open
C7_Witness ==
  \E t \in Threads :
    /\ ret[t] = [addr |-> addr[t], array |-> NoArray, err |-> ErrDial]
    /\ pc[t] = "gca_return"
    /\ ~isClosed
    /\ array[t] # NoArray
    /\ err[t] = NoErr
    /\ \A s \in Slots(array[t]) : net[array[t]].st[s] = "open"

(* ----------------------- round-robin properties ----------------------- *)
\* the Get calls so far whose slot was s
Hits(s) == {n \in 1 .. Len(log) : log[n].slot = s}

\* the array Get started from is freshly constructed: its cursor was 0
Fresh == Len(log) > 0 /\ log[1].old = <<0, 0>>

\* every Get call issued has returned
GetsReturned == \A t \in Threads : pc[t] = "idle"

\* (x + 1) mod k for the uint32 cursor x
SlotAfter(x, k) ==
  IF x = <<Limb - 1, Limb - 1>>
    THEN 0
    ELSE (((x[1] % k) * (Limb % k)) + (x[2] % k) + 1) % k

\* C8 as stated: when one goroutine alone calls Get on an array of size k, any k
\* consecutive calls return the k slots in slot order, each once, starting from
\* slot (cursor+1) mod k, cursor being the value before the first of them; each
\* call returns the connection of its slot.
C8_Original ==
  \A t \in Threads :
    (gets[t] = Len(log) /\ pc[t] = "idle" /\ Len(log) > 0) =>
      LET k == Size(1)
      IN  /\ \A n \in 1 .. Len(log) - k + 1 :
               \A m \in 0 .. k - 1 :
                 log[n + m].slot = (SlotAfter(log[n].old, k) + m) % k
          /\ got[t] = <<1, log[Len(log)].slot>>

\* C9: m*k Get calls issued by any goroutines, in any interleaving, on a freshly
\* constructed connArray of size k return each of the k slots exactly m times,
\* and no two of the calls observed the same cursor value.
C9_EachSlotMTimes ==
  \A m \in 1 .. MaxGets :
    (Fresh /\ GetsReturned /\ Len(log) = m * Size(1)) =>
      /\ \A s \in Slots(1) : Cardinality(Hits(s)) = m
      /\ \A n1, n2 \in 1 .. Len(log) : n1 # n2 => log[n1].old # log[n2].old

\* a full round on a fresh array of the pool's size, every goroutine having
\* called Get
C9_Witness ==
  /\ Fresh
  /\ GetsReturned
  /\ Size(1) = PoolSize
  /\ Len(log) = PoolSize
  /\ \A t \in Threads : gets[t] > 0

\* C10 as stated: on an array of the pool's size, successive Get calls return
\* slots that advance by exactly one modulo the size, also across the overflow of
\* the cursor from 2^32-1 to 0.
C10_Original ==
  Size(1) = PoolSize =>
    \A n \in 1 .. Len(log) - 1 : log[n + 1].slot = (log[n].slot + 1) % PoolSize

(* ------------------------- locking properties ------------------------- *)
\* a goroutine is inside newConnArray, dialing
Dialing(t) == pc[t] \in {"init", "init_err"}

\* every slot of the array holds a connection, and that connection is open
AllOpen(id) ==
  \A s \in Slots(id) : arrays[id].v[s] # NilConn /\ net[id].st[s] = "open"

\* C11 as stated: while a goroutine is dialing for an address not yet registered,
\* a getConnArray call for a registered address of the open pool can take the
\* shared lock at once, without waiting for the construction to finish.
C11_Original ==
  \A t1, t2 \in Threads, ad \in Addrs :
    (/\ Dialing(t1)
     /\ conns[addr[t1]] = NoArray
     /\ pc[t2] = "idle"
     /\ ~isClosed
     /\ conns[ad] # NoArray)
      => CanRLock

(* --------------------------- Close properties ------------------------- *)
\* C12: over any sequence of Close calls on one connArray, no connection is
\* closed twice and none that was never opened is closed; once a Close has
\* returned, every connection that init opened has been closed exactly once and
\* every slot is nil, so a later Close finds nothing to close; and no Close
\* leaves an error with its caller.
C12_NoDoubleClose ==
  /\ \A id \in DOMAIN net : \A s \in DOMAIN net[id].st :
       net[id].st[s] # "closed twice"
  /\ hist.ccRets > 0 =>
       \A s \in Slots(1) :
         arrays[1].v[s] = NilConn /\ net[1].st[s] \in {"closed", "failed", "undialed"}
  /\ \A t \in Threads : pc[t] \in {"idle", "cc_range"} => err[t] = NoErr

\* Close has returned twice on a connArray of the pool's length: once on its
\* open connections and once on its nil slots
C12_Witness ==
  /\ hist.ccRets = 2
  /\ Size(1) = PoolSize
  /\ \A s \in Slots(1) : net[1].st[s] = "closed"

(* -------------------------- shutdown properties ----------------------- *)
\* the connArrays registered after closeConns set isClosed
Leaked == {conns[ad] : ad \in Addrs} \ (shut \cup {NoArray})

\* a goroutine is inside Close for the array, or its closeConns has yet to visit it
Closing(id) ==
  \E t \in Threads :
    pc[t] \in {"cc_range", "cc_Close"} /\ (a[t] = id \/ id \in todo[t])

\* C13: a connArray that createConnArray registers on a closed pool was
\* registered after the closeConns that closed the pool had returned, every one
\* of its connections is open, and no operation, a later closeConns included,
\* ever closes one of them or is about to.
C13_LeakStaysOpen ==
  isClosed =>
    \A id \in Leaked : hist.ccRets > 0 /\ AllOpen(id) /\ ~Closing(id)

\* every call has returned, closeConns twice: the connArray registered before
\* shutdown is closed, the one registered after it is still open
C13_Witness ==
  /\ hist.ccRets = 2
  /\ \A t \in Threads : pc[t] = "idle"
  /\ \E id \in shut : ClosedAndCleared(id)
  /\ \E id \in Leaked : AllOpen(id)

\* the connArrays in the registry
Registered == {conns[ad] : ad \in Addrs} \ {NoArray}

\* every slot of the array is nil
AllNil(id) == \A s \in Slots(id) : arrays[id].v[s] = NilConn

\* C14 as stated: in every reachable state each registered connArray has all its
\* slots open or all its slots nil, and while isClosed is false every registered
\* connArray has all slots open.
C14_Original ==
  /\ \A id \in Registered : AllOpen(id) \/ AllNil(id)
  /\ ~isClosed => \A id \in Registered : AllOpen(id)

\* C14 as amended: the same in every state in which no Close is running on the
\* connArray; closeConns' Close clears a registered connArray slot by slot.
C14_Amended ==
  /\ \A id \in Registered :
       (\A t \in Threads : ~(pc[t] = "cc_Close" /\ a[t] = id)) =>
         AllOpen(id) \/ ClosedAndCleared(id)
  /\ \A t \in Threads :
       pc[t] = "cc_Close" =>
         \A s \in Slots(a[t]) :
           IF s < i[t]
             THEN arrays[a[t]].v[s] = NilConn /\ net[a[t]].st[s] = "closed"
             ELSE arrays[a[t]].v[s] # NilConn /\ net[a[t]].st[s] = "open"
  /\ ~isClosed => \A id \in Registered : AllOpen(id)

\* closeConns is halfway through a registered connArray while another registered
\* connArray is still fully open
C14_Witness ==
  \E t \in Threads :
    /\ pc[t] = "cc_Close"
    /\ i[t] = 5
    /\ a[t] \in Registered
    /\ \E id \in Registered : id # a[t] /\ AllOpen(id)

\* C15: Close is best-effort. When c.Close() returns an error for a slot, Close
\* clears that slot and goes on to the next one; when Close returns, every slot
\* of the array is nil, every connection it held has had its close call, and the
\* error is not passed on; and closeConns then goes on to the connArrays it has
\* yet to visit, so that when it unlocks every one of them is closed and cleared.
C15_BestEffortClose ==
  [][\A t \in Threads :
       /\ (pc[t] = "cc_Close" /\ i'[t] # i[t] /\ err'[t] = ErrClose) =>
            /\ pc'[t] = "cc_Close"
            /\ i'[t] = i[t] + 1
            /\ arrays'[a[t]].v[i[t]] = NilConn
            /\ net'[a[t]].st[i[t]] = "closed"
       /\ (pc[t] = "cc_Close" /\ pc'[t] # "cc_Close") =>
            /\ ClosedAndCleared(a[t])
            /\ err'[t] = NoErr
            /\ pc'[t] = "cc_range"
            /\ todo'[t] = todo[t]
       /\ (pc[t] = "cc_range" /\ pc'[t] = "idle") =>
            \A id \in shut : ClosedAndCleared(id)]_vars

\* c.Close() has just returned an error for slot 3 of the first connArray that
\* closeConns visits; slots 4..9 and a second connArray are still to be closed
C15_Witness ==
  \E t \in Threads :
    /\ pc[t] = "cc_Close"
    /\ err[t] = ErrClose
    /\ i[t] = 4
    /\ todo[t] # {}

\* C16: a closeConns call on a closed pool is a no-op. Its entry leaves isClosed
\* true and the registry, every slot and every connection as they were, and finds
\* no connArray to close; its only other step is the unlock, which changes none
\* of them either. This holds with a connArray in the registry that was
\* registered after the first closeConns.
C16_SecondCloseNoOp ==
  [][\A t \in Threads :
       /\ (pc[t] = "idle" /\ pc'[t] = "cc_range" /\ isClosed) =>
            /\ isClosed'
            /\ todo'[t] = {}
            /\ <<conns, arrays, net>>' = <<conns, arrays, net>>
       /\ (pc[t] = "cc_range" /\ pc'[t] # "cc_range" /\ hist.ccRets > 0) =>
            /\ pc'[t] = "idle"
            /\ isClosed'
            /\ <<conns, arrays, net>>' = <<conns, arrays, net>>]_vars

\* a second closeConns call holds the lock on a closed pool whose registry has a
\* connArray registered after the first call, every connection of it open
C16_Witness ==
  \E t \in Threads :
    /\ pc[t] = "cc_range"
    /\ hist.ccRets = 1
    /\ \E id \in Leaked : AllOpen(id)

\* C17: at most one goroutine is inside newConnArray at any time, and it holds
\* the exclusive lock; a goroutine that wants to create a connArray meanwhile
\* cannot take the lock; nobody dials for an address that has a registered
\* connArray, so a goroutine that waited through a successful construction dials
\* nothing and returns the registered entry.
C17_ExclusiveConstruction ==
  /\ Cardinality({t \in Threads : Dialing(t)}) <= 1
  /\ \A t \in Threads :
       Dialing(t) =>
         /\ rw = [writer |-> t, readers |-> {}]
         /\ conns[addr[t]] = NoArray
         /\ \A u \in Threads :
              pc[u] = "cca_Lock" => ~ENABLED createConnArray_Lock(u)
  /\ \A t \in Threads :
       (pc[t] = "gca_return" /\ err[t] = NoErr) =>
         array[t] # NoArray /\ array[t] = conns[addr[t]]

\* a goroutine waits to create the connArray of an address while another is
\* halfway through dialing it
C17_Witness ==
  \E t, u \in Threads :
    /\ pc[t] = "init"
    /\ i[t] = 5
    /\ pc[u] = "cca_Lock"
    /\ addr[u] = addr[t]

\* C18 as stated: whenever getConnArray is about to return a connArray, all its
\* slots hold open connections, also when the call overlaps a closeConns.
C18_Original ==
  \A t \in Threads :
    (pc[t] = "gca_return" /\ array[t] # NoArray) => AllOpen(array[t])

\* C18 as amended: the connArray getConnArray is about to return has all its
\* slots open unless it was registered when a closeConns set isClosed; that
\* closeConns clears it slot by slot, and once it has returned every slot is nil.
C18_Amended ==
  \A t \in Threads :
    (pc[t] = "gca_return" /\ array[t] # NoArray) =>
      /\ array[t] \notin shut => AllOpen(array[t])
      /\ (array[t] \in shut /\ hist.ccRets > 0) => AllNil(array[t])

\* a getConnArray that found its connArray on the fast path before closeConns
\* began is about to return it after closeConns has cleared it
C18_Witness ==
  \E t \in Threads :
    /\ pc[t] = "gca_return"
    /\ array[t] \in shut
    /\ hist.ccRets > 0
    /\ AllNil(array[t])

\* the goroutine holds the lock, shared or exclusive
Holds(t) == rw.writer = t \/ t \in rw.readers

\* C19: the holder of the lock never waits for the lock and always has a step
\* to take; the shared lock has been released when the exclusive lock is
\* requested; a goroutine waiting for a free lock can take it; every call that
\* was entered returns; and a held lock is released.
C19_EveryCallReturns ==
  /\ [](\A t \in Threads :
         /\ Holds(t) => pc[t] \notin {"idle", "cca_Lock"} /\ ENABLED Proceed(t)
         /\ pc[t] = "cca_Lock" => ~Holds(t)
         /\ (pc[t] = "cca_Lock" /\ LockFree) => ENABLED Proceed(t))
  /\ \A t \in Threads : []<>(pc[t] = "idle")
  /\ []<>LockFree

\* a goroutine waits for the exclusive lock, to create a connArray, while
\* closeConns holds it halfway through closing another connArray
C19_Witness ==
  \E t, u \in Threads :
    /\ pc[t] = "cc_Close"
    /\ i[t] = 5
    /\ rw.writer = t
    /\ pc[u] = "cca_Lock"

\* the connections open to the address: those of the arrays in the heap and those
\* left open in arrays that have become garbage
OpenTo(ad) ==
  orphans[ad]
    + Cardinality({c \in (DOMAIN net) \X (0 .. PoolSize - 1) :
                     net[c[1]].addr = ad /\ net[c[1]].st[c[2]] = "open"})

\* C20: in every reachable state, failed constructions and retries included, at
\* most PoolSize connections are open to any one address.
C20_AtMostPoolSizeOpen == \A ad \in Addrs : OpenTo(ad) <= PoolSize

\* an address whose first construction failed after opening connections and
\* whose second construction opened all ten
C20_Witness ==
  \E ad \in Addrs :
    /\ dialSeqs[ad] >= 2
    /\ OpenTo(ad) = PoolSize
    /\ \E t \in Threads : ret[t] = [addr |-> ad, array |-> NoArray, err |-> ErrDial]

====
